---- MODULE Spec2Model ----
(***************************************************************************)
(* A model of the track-resolution and download pipeline of the MP3-Player *)
(* repository: the candidate search of youtube_searcher.py, the recording  *)
(* of a download (record_download), the per-item pipeline download_and_tag *)
(* and the worker pool of process_tracks, the channel cache with           *)
(* find_or_cache_artist_channel, and trim_silence_m4a.                     *)
(*                                                                         *)
(* Text is modelled as a sequence of words; Python's substring test `in`   *)
(* is modelled as "occurs as a contiguous run of words", and str.lower()   *)
(* as a word-by-word case folding.                                         *)
(***************************************************************************)
EXTENDS Integers, Sequences, FiniteSets, TLC

VARIABLES
    \* ---- search_youtube_for_song (youtube_searcher.py) ----
    name,           \* the track title being resolved (a text)
    artist,         \* the artist being resolved (a text, <<>> when unknown)
    channel_url,    \* what find_or_cache_artist_channel returned ("" = none)
    qIdx,           \* index into queries of the next query of the for loop
    best_url,       \* running best candidate url (NoUrl = None)
    best_score,     \* running best score (-1 initially)
    issued,         \* history: the queries issued so far, with what came back
    sPc,            \* "loop", "ret" (after the loop), "done" (returned)
    sResult,        \* the returned pair (best_url, channel_url)
    \* ---- the durable store (models.py) ----
    tracks,         \* table tracks: spotify id -> [present, checksum]
    downloads,      \* table downloads: <<user_id, track_id>> -> number of rows
    user_history,   \* table user_history: <<user_id, track_id>> -> number of rows
    uniqueDownloads,\* schema: does downloads carry a unique key on (user_id, track_id)
    \* ---- calls of record_download ----
    rdCalls,        \* <<user_id, track_id>> -> number of calls made
    rdFaulted,      \* <<user_id, track_id>> -> some call met a database fault
    rdRaised,       \* <<user_id, track_id>> -> the latest call raised
    \* ---- process_tracks and its download_and_tag (youtube_dl.py) ----
    itemTrack,      \* item -> the track descriptor submitted for it
    pc,             \* item -> where its download_and_tag stands
    started,        \* item -> number of times download_and_tag was started for it
    result,         \* item -> what its future holds: Unset, None, Raised or a path
    reason,         \* item -> why it failed ("" when it did not)
    recFailed,      \* item -> record_download raised inside download_and_tag
    collected,      \* the items whose future the as_completed loop has consumed
    downloaded,     \* the list process_tracks returns
    logged,         \* what process_tracks itself logged with LOGGER.exception
    ptPc,           \* process_tracks: "running", "returned" or "raised"
    \* ---- test_download.main and download_and_tag of youtube_downloader.py ----
    playlist,       \* the rows get_tracks_for_playlist returned
    mRun,           \* which run of main() this is
    mIdx,           \* index into playlist of the track of the for loop
    mPc,            \* where the current download_and_tag call stands
    mResult,        \* what the latest download_and_tag call returned
    mRecFailed,     \* models.record_download raised inside the latest call
    mFetchFailed,   \* ydl.extract_info(url, download=True) raised inside the latest call
    mTagFailed,     \* the tagging block raised inside the latest call
    mChecksum,      \* the checksum the latest call computed (NULL before)
    mTrail,         \* the stages the latest call has entered, in order
    nSearch,        \* track -> number of resolutions (search_youtube_for_song calls)
    nFetch,         \* track -> number of downloads started
    \* ---- the channel cache (models.py) and find_or_cache_artist_channel ----
    youtube_channels, \* table youtube_channels: artist_name -> channel_url, or Absent
    chCalls,        \* number of direct get_/set_artist_channel calls made
    chGets,         \* number of get_artist_channel calls answered
    chGot,          \* the latest get_artist_channel call: [artist, value]
    chLastSet,      \* artist_name -> value of the latest set_artist_channel that ran
    rName,          \* search_youtube_for_song: the title being resolved
    rArtist,        \* search_youtube_for_song: the artist being resolved
    rPc,            \* where the resolution stands
    rBest,          \* find_or_cache_artist_channel: best_match_url
    rDiscoveries,   \* number of channel-discovery searches this resolution ran
    rFault,         \* a cache call of this resolution met a database error
    rChannel,       \* what find_or_cache_artist_channel returned
    rQueries,       \* the query list built from it
    rLines,         \* output of the discovery search, while find_or_cache_artist_channel holds it
    rRuns,          \* number of resolutions started
    \* ---- trim_silence_m4a ----
    tVariant,       \* which module's trim_silence_m4a is running
    tClip,          \* the decoded clip: its length and its non-silent ranges
    tOrig,          \* content of the file at file_path before the call
    tFile,          \* content of the file at file_path
    tTemp,          \* the temporary files of this call that exist
    tPc,            \* where the call stands
    tFailed,        \* an internal step of the call failed
    tReturn,        \* what the call returned
    \* ---- two concurrent calls of find_or_cache_artist_channel ----
    raceArtist,     \* the artist both calls look for
    racePc,         \* call -> where it stands
    raceBest,       \* call -> its best_match_url
    raceRet,        \* call -> what it returned
    raceWrites      \* the references written to the cache by the calls, in order

searchVars == <<name, artist, channel_url, qIdx, best_url, best_score, issued, sPc, sResult>>
dbVars == <<tracks, downloads, user_history, uniqueDownloads>>
rdVars == <<rdCalls, rdFaulted, rdRaised>>

batchVars == <<itemTrack, pc, started, result, reason, recFailed, collected, downloaded, logged, ptPc>>

mainVars == <<playlist, mRun, mIdx, mPc, mResult, mRecFailed, mFetchFailed, mTagFailed, mChecksum, mTrail,
              nSearch, nFetch>>

chanVars == <<youtube_channels, chCalls, chGets, chGot, chLastSet,
              rName, rArtist, rPc, rBest, rDiscoveries, rFault, rChannel, rQueries, rLines, rRuns>>

trimVars == <<tVariant, tClip, tOrig, tFile, tTemp, tPc, tFailed, tReturn>>

raceVars == <<raceArtist, racePc, raceBest, raceRet, raceWrites>>

vars == <<searchVars, dbVars, rdVars, batchVars, mainVars, chanVars, trimVars, raceVars>>

----------------------------------------------------------------------------
(* Bounds of the model *)

\* at most this many entries come back from one search query
MaxEntries == 2
\* at most this many entries are examined during one resolution
MaxExamined == 2
\* at most this many queries of one resolution fail at the network layer
MaxFailures == 1
\* at most this many calls of record_download in all
MaxCalls == 3
\* the number of tracks submitted to process_tracks
NItems == 3
\* the size of the worker pool (the `workers` argument)
Workers == 2
\* the number of times test_download.main is run
MaxRuns == 2
\* the number of direct calls of get_artist_channel / set_artist_channel
MaxCacheCalls == 2
\* the number of resolutions started
MaxResolves == 1
\* the number of lines the channel-discovery search prints
MaxLines == 2
\* the length of the longest clip, in quarter seconds
MaxClip == 4

----------------------------------------------------------------------------
(* Text *)

NoUrl == "None"

\* str.lower(), word by word
Lower(w) ==
    CASE w = "Yellow"   -> "yellow"
      [] w = "Coldplay" -> "coldplay"
      [] w = "Official" -> "official"
      [] w = "Music"    -> "music"
      [] w = "Video"    -> "video"
      [] w = "Audio"    -> "audio"
      [] w = "Lyric"    -> "lyric"
      [] w = "VEVO"     -> "vevo"
      [] w = "Cooking"  -> "cooking"
      [] w = "Show"     -> "show"
      [] w = "Live"     -> "live"
      [] OTHER          -> w

Lowercase(s) == [i \in 1..Len(s) |-> Lower(s[i])]

\* Python's `p in s` on texts: the empty text is in every text
In(p, s) ==
    IF Len(p) = 0 THEN TRUE
    ELSE \E i \in 1..(Len(s) - Len(p) + 1) : SubSeq(s, i, i + Len(p) - 1) = p

(* Values and idle states of the pipeline *)

Users == {1, 2}
TrackIds == {"t1", "t2"}
Checksums == {"c1", "c2"}
Pairs == Users \X TrackIds
NULL == "NULL"

Items == 1..NItems
Unset == <<"Unset">>
None == <<"None">>
Raised == <<"Raised">>

\* the user process_tracks runs for
BatchUser == 1

\* a submitted row: its track, and whether it has a name and artists
Descriptors == [id : TrackIds, complete : BOOLEAN]

\* the rows of the submitted list: tracks t1, t2, t1, t2, ... (a track may occur twice)
RowTrack(i) == IF i % 2 = 1 THEN "t1" ELSE "t2"

NoDescriptor == [id |-> "none", complete |-> FALSE]

\* final_path = output_dir / f"{name}.m4a"
FinalPath(d) == <<"downloads", d.id>>

BatchIdle ==
    /\ itemTrack = [i \in Items |-> NoDescriptor]
    /\ pc = [i \in Items |-> "Pending"]
    /\ started = [i \in Items |-> 0]
    /\ result = [i \in Items |-> Unset]
    /\ reason = [i \in Items |-> ""]
    /\ recFailed = [i \in Items |-> FALSE]
    /\ collected = {}
    /\ downloaded = <<>>
    /\ logged = <<>>
    /\ ptPc = "idle"

\* the user test_download.main runs for: models.upsert_user("michael")
MainUser == 1

MainIdle ==
    /\ playlist = <<>>
    /\ mRun = 1
    /\ mIdx = 1
    /\ mPc = "idle"
    /\ mResult = Unset
    /\ mRecFailed = FALSE
    /\ mFetchFailed = FALSE
    /\ mTagFailed = FALSE
    /\ mChecksum = NULL
    /\ mTrail = <<>>
    /\ nSearch = [t \in TrackIds |-> 0]
    /\ nFetch = [t \in TrackIds |-> 0]

\* a table row that does not exist
Absent == "Absent"

\* the artist names the cache is keyed by, spelt letter by letter
ArtistNames == { <<>>, <<"A", "b">>, <<"a", "b", " ", "Official">> }

ChannelIdle ==
    /\ youtube_channels = [a \in ArtistNames |-> Absent]
    /\ chCalls = 0
    /\ chGets = 0
    /\ chGot = [artist |-> <<>>, value |-> ""]
    /\ chLastSet = [a \in ArtistNames |-> Absent]
    /\ rName = ""
    /\ rArtist = <<>>
    /\ rPc = "idle"
    /\ rBest = ""
    /\ rDiscoveries = 0
    /\ rFault = FALSE
    /\ rChannel = ""
    /\ rQueries = <<>>
    /\ rLines = <<>>
    /\ rRuns = 0

\* the content of an audio file: the part of the clip it holds and how it was encoded
Content(from, to, enc) == [from |-> from, to |-> to, encoding |-> enc]

TrimIdle ==
    /\ tVariant = "youtube_dl"
    /\ tClip = [len |-> 0, ranges |-> <<>>]
    /\ tOrig = Content(0, 0, "downloaded")
    /\ tFile = Content(0, 0, "downloaded")
    /\ tTemp = {}
    /\ tPc = "idle"
    /\ tFailed = FALSE
    /\ tReturn = ""

\* the two workers of the race
RaceWorkers == {1, 2}

RaceIdle ==
    /\ raceArtist = <<>>
    /\ racePc = [w \in RaceWorkers |-> "idle"]
    /\ raceBest = [w \in RaceWorkers |-> ""]
    /\ raceRet = [w \in RaceWorkers |-> ""]
    /\ raceWrites = <<>>

\* the search is not running
SearchIdle ==
    /\ name = <<>>
    /\ artist = <<>>
    /\ channel_url = ""
    /\ qIdx = 1
    /\ best_url = NoUrl
    /\ best_score = -1
    /\ issued = <<>>
    /\ sPc = "idle"
    /\ sResult = [url |-> NoUrl, channel |-> NoUrl]

----------------------------------------------------------------------------
(* The durable store and record_download *)

\* the parts of the state a specification does not exercise
StoreIdle ==
    /\ tracks = [t \in TrackIds |-> [present |-> FALSE, checksum |-> NULL]]
    /\ downloads = [p \in Pairs |-> 0]
    /\ user_history = [p \in Pairs |-> 0]
    /\ uniqueDownloads = TRUE

RecordIdle ==
    /\ rdCalls = [p \in Pairs |-> 0]
    /\ rdFaulted = [p \in Pairs |-> FALSE]
    /\ rdRaised = [p \in Pairs |-> FALSE]

\* models.get_or_create_track: the row of the track's external id, created when absent
GetOrCreateTrack(tr, t) == [tr EXCEPT ![t].present = TRUE]

\* UPDATE tracks SET checksum=%s WHERE id=%s
SetChecksum(tr, t, c) == IF tr[t].present THEN [tr EXCEPT ![t].checksum = c] ELSE tr

\* INSERT INTO downloads (...) VALUES (...): a plain insert, which the store rejects
\* (duplicate key) when the table has a unique key and the pair is already there
InsertDownload(dl, unique, u, t) ==
    IF unique /\ dl[<<u, t>>] > 0
    THEN [rows |-> dl, raised |-> TRUE]
    ELSE [rows |-> [dl EXCEPT ![<<u, t>>] = @ + 1], raised |-> FALSE]

\* INSERT INTO user_history (...) VALUES (user, track, 'downloaded')
InsertHistory(h, u, t) == [h EXCEPT ![<<u, t>>] = @ + 1]

\* models.upsert_track: INSERT INTO tracks (...) VALUES (...) ON DUPLICATE KEY UPDATE
\* ..., checksum = VALUES(checksum), on the row of the track's external id
upsert_track(tr, t, c) == [tr EXCEPT ![t] = [present |-> TRUE, checksum |-> c]]

\* the checksum the exporters hand to upsert_track: `"checksum": None`, or no such key
\* and track.get("checksum")
ExportedChecksum == NULL

Store(tr, dl, h, raised) == [tracks |-> tr, downloads |-> dl, user_history |-> h, raised |-> raised]

\* record_download: four statements, each committed on its own; fault = k > 0 means the
\* k-th statement meets a database error, fault = 0 means none does
RecordDownload(tr, dl, h, unique, u, t, c, fault) ==
    IF fault = 1 THEN Store(tr, dl, h, TRUE)
    ELSE LET tr1 == GetOrCreateTrack(tr, t) IN
    IF fault = 2 THEN Store(tr1, dl, h, TRUE)
    ELSE LET tr2 == SetChecksum(tr1, t, c) IN
    IF fault = 3 THEN Store(tr2, dl, h, TRUE)
    ELSE LET ins == InsertDownload(dl, unique, u, t) IN
    IF ins.raised THEN Store(tr2, dl, h, TRUE)
    ELSE IF fault = 4 THEN Store(tr2, ins.rows, h, TRUE)
    ELSE Store(tr2, ins.rows, InsertHistory(h, u, t), FALSE)

Faults == 0..4

RECURSIVE SumOver(_, _)
SumOver(f, S) ==
    IF S = {} THEN 0
    ELSE LET x == CHOOSE y \in S : TRUE IN f[x] + SumOver(f, S \ {x})

TotalCalls == SumOver(rdCalls, Pairs)

RecordInit ==
    /\ tracks \in [TrackIds -> { [present |-> FALSE, checksum |-> NULL],
                                 [present |-> TRUE, checksum |-> NULL] }]
    /\ downloads = [p \in Pairs |-> 0]
    /\ user_history = [p \in Pairs |-> 0]
    /\ uniqueDownloads \in BOOLEAN
    /\ RecordIdle
    /\ SearchIdle
    /\ BatchIdle
    /\ MainIdle
    /\ ChannelIdle
    /\ TrimIdle
    /\ RaceIdle

\* one call record_download(user_id, track, ..., checksum, ...)
CallRecordDownload(u, t, c, fault) ==
    /\ TotalCalls < MaxCalls
    /\ LET r == RecordDownload(tracks, downloads, user_history, uniqueDownloads, u, t, c, fault)
       IN  /\ tracks' = r.tracks
           /\ downloads' = r.downloads
           /\ user_history' = r.user_history
           /\ rdRaised' = [rdRaised EXCEPT ![<<u, t>>] = r.raised]
    /\ rdCalls' = [rdCalls EXCEPT ![<<u, t>>] = @ + 1]
    /\ rdFaulted' = [rdFaulted EXCEPT ![<<u, t>>] = @ \/ fault # 0]
    /\ UNCHANGED <<uniqueDownloads, searchVars, batchVars, mainVars, chanVars, trimVars, raceVars>>

\* an export of the user's library stores a track: models.upsert_track({...})
CallUpsertTrack(t) ==
    /\ tracks' = upsert_track(tracks, t, ExportedChecksum)
    /\ UNCHANGED <<downloads, user_history, uniqueDownloads, rdVars>>
    /\ UNCHANGED <<searchVars, batchVars, mainVars, chanVars, trimVars, raceVars>>

RecordNext ==
    \/ \E u \in Users, t \in TrackIds, c \in Checksums, fault \in Faults :
            CallRecordDownload(u, t, c, fault)
    \/ \E t \in TrackIds : CallUpsertTrack(t)

SpecRecord == RecordInit /\ [][RecordNext]_vars

----------------------------------------------------------------------------
(* process_tracks and download_and_tag of youtube_dl.py *)

BatchInit ==
    /\ tracks = [t \in TrackIds |-> [present |-> FALSE, checksum |-> NULL]]
    /\ downloads = [p \in Pairs |-> 0]
    /\ user_history = [p \in Pairs |-> 0]
    /\ uniqueDownloads \in BOOLEAN
    /\ RecordIdle
    /\ SearchIdle
    /\ MainIdle
    /\ ChannelIdle
    /\ TrimIdle
    /\ RaceIdle
    /\ itemTrack \in { f \in [Items -> Descriptors] : \A i \in Items : f[i].id = RowTrack(i) }
    /\ pc = [i \in Items |-> "Pending"]
    /\ started = [i \in Items |-> 0]
    /\ result = [i \in Items |-> Unset]
    /\ reason = [i \in Items |-> ""]
    /\ recFailed = [i \in Items |-> FALSE]
    /\ collected = {}
    /\ downloaded = <<>>
    /\ logged = <<>>
    /\ ptPc = "running"

Running == { i \in Items : pc[i] \notin {"Pending", "Finished"} }

\* the future of item i completes: download_and_tag returned r, or raised
Finish(i, r, why) ==
    /\ pc' = [pc EXCEPT ![i] = "Finished"]
    /\ result' = [result EXCEPT ![i] = r]
    /\ reason' = [reason EXCEPT ![i] = why]

\* a variant of the pool that takes any number of items at once
PoolUnbounded(n) == TRUE

\* ThreadPoolExecutor(max_workers=workers): a thread is free when n items are running
PoolHasRoom(n) == n < Workers

\* a pool thread takes the next submitted item; `if not name or not artists: return None`
ItemStart(i) ==
    /\ pc[i] = "Pending"
    /\ \A j \in Items : j < i => pc[j] # "Pending"
    /\ PoolHasRoom(Cardinality(Running))
    /\ started' = [started EXCEPT ![i] = @ + 1]
    /\ IF itemTrack[i].complete
       THEN /\ pc' = [pc EXCEPT ![i] = "Resolving"]
            /\ UNCHANGED <<result, reason>>
       ELSE Finish(i, None, "missing name/artist")
    /\ UNCHANGED <<itemTrack, recFailed, collected, downloaded, logged, ptPc, dbVars>>
    /\ UNCHANGED <<searchVars, rdVars, mainVars, chanVars, trimVars, raceVars>>

\* the search loop finds a match
ItemResolved(i) ==
    /\ pc[i] = "Resolving"
    /\ pc' = [pc EXCEPT ![i] = "Fetching"]
    /\ UNCHANGED <<started, itemTrack, result, reason, recFailed, collected, downloaded, logged, ptPc, dbVars>>
    /\ UNCHANGED <<searchVars, rdVars, mainVars, chanVars, trimVars, raceVars>>

\* no query yields a match: `return None`
ItemNoMatch(i) ==
    /\ pc[i] = "Resolving"
    /\ Finish(i, None, "no match")
    /\ UNCHANGED <<started, itemTrack, recFailed, collected, downloaded, logged, ptPc, dbVars>>
    /\ UNCHANGED <<searchVars, rdVars, mainVars, chanVars, trimVars, raceVars>>

\* ydl.extract_info(f"ytsearch3:{q}") raises: nothing catches it in download_and_tag
ItemSearchRaises(i) ==
    /\ pc[i] = "Resolving"
    /\ Finish(i, Raised, "search error")
    /\ UNCHANGED <<started, itemTrack, recFailed, collected, downloaded, logged, ptPc, dbVars>>
    /\ UNCHANGED <<searchVars, rdVars, mainVars, chanVars, trimVars, raceVars>>

\* ydl.extract_info(url, download=True) succeeds and the file is renamed to final_path
ItemFetched(i) ==
    /\ pc[i] = "Fetching"
    /\ pc' = [pc EXCEPT ![i] = "Normalizing"]
    /\ UNCHANGED <<started, itemTrack, result, reason, recFailed, collected, downloaded, logged, ptPc, dbVars>>
    /\ UNCHANGED <<searchVars, rdVars, mainVars, chanVars, trimVars, raceVars>>

\* ydl.extract_info(url, download=True) raises: nothing catches it in download_and_tag
ItemFetchRaises(i) ==
    /\ pc[i] = "Fetching"
    /\ Finish(i, Raised, "fetch error")
    /\ UNCHANGED <<started, itemTrack, recFailed, collected, downloaded, logged, ptPc, dbVars>>
    /\ UNCHANGED <<searchVars, rdVars, mainVars, chanVars, trimVars, raceVars>>

\* trim_silence_m4a(final_path): it catches its own failures
ItemNormalized(i) ==
    /\ pc[i] = "Normalizing"
    /\ pc' = [pc EXCEPT ![i] = "Tagging"]
    /\ UNCHANGED <<started, itemTrack, result, reason, recFailed, collected, downloaded, logged, ptPc, dbVars>>
    /\ UNCHANGED <<searchVars, rdVars, mainVars, chanVars, trimVars, raceVars>>

\* the tagging block: a failure is logged and swallowed
ItemTagged(i) ==
    /\ pc[i] = "Tagging"
    /\ pc' = [pc EXCEPT ![i] = "Recording"]
    /\ UNCHANGED <<started, itemTrack, result, reason, recFailed, collected, downloaded, logged, ptPc, dbVars>>
    /\ UNCHANGED <<searchVars, rdVars, mainVars, chanVars, trimVars, raceVars>>

\* compute_checksum(final_path): the digest of the file's content
FileChecksum(path) == IF path[2] = "t1" THEN "c1" ELSE "c2"

\* the database faults a batch run may meet: none, or one at the INSERT INTO downloads
BatchFaults == {0, 3}

\* compute_checksum, then record_download inside try/except, then `return final_path`
ItemRecord(i, c, fault) ==
    /\ pc[i] = "Recording"
    /\ LET r == RecordDownload(tracks, downloads, user_history, uniqueDownloads,
                               BatchUser, itemTrack[i].id, c, fault)
       IN  /\ tracks' = r.tracks
           /\ downloads' = r.downloads
           /\ user_history' = r.user_history
           /\ recFailed' = [recFailed EXCEPT ![i] = r.raised]
           /\ Finish(i, FinalPath(itemTrack[i]), "")
    /\ UNCHANGED <<started, itemTrack, collected, downloaded, logged, ptPc, uniqueDownloads>>
    /\ UNCHANGED <<searchVars, rdVars, mainVars, chanVars, trimVars, raceVars>>

\* `if result:`
Truthy(r) == r # None

\* what the as_completed loop does with a future that raised; a variant lets it escape
Propagate == "raise"
OnFutureException == "log"

\* one iteration of `for future in as_completed(future_to_track)`
Collect(i) ==
    /\ ptPc = "running"
    /\ pc[i] = "Finished"
    /\ i \notin collected
    /\ collected' = collected \cup {i}
    /\ IF result[i] = Raised
       THEN IF OnFutureException = "log"
            THEN /\ logged' = Append(logged, <<i, reason[i]>>)
                 /\ UNCHANGED <<downloaded, ptPc>>
            ELSE /\ ptPc' = "raised"
                 /\ UNCHANGED <<downloaded, logged>>
       ELSE IF Truthy(result[i])
       THEN /\ downloaded' = Append(downloaded, result[i])
            /\ UNCHANGED <<logged, ptPc>>
       ELSE UNCHANGED <<downloaded, logged, ptPc>>
    /\ UNCHANGED <<started, itemTrack, pc, result, reason, recFailed, dbVars>>
    /\ UNCHANGED <<searchVars, rdVars, mainVars, chanVars, trimVars, raceVars>>

\* `return downloaded`
ProcessTracksReturn ==
    /\ ptPc = "running"
    /\ collected = Items
    /\ ptPc' = "returned"
    /\ UNCHANGED <<started, itemTrack, pc, result, reason, recFailed, collected, downloaded, logged, dbVars>>
    /\ UNCHANGED <<searchVars, rdVars, mainVars, chanVars, trimVars, raceVars>>

\* the steps of item i's download_and_tag
ItemStage(i) ==
    \/ ItemResolved(i)
    \/ ItemNoMatch(i)
    \/ ItemSearchRaises(i)
    \/ ItemFetched(i)
    \/ ItemFetchRaises(i)
    \/ ItemNormalized(i)
    \/ ItemTagged(i)
    \/ \E fault \in BatchFaults : ItemRecord(i, FileChecksum(FinalPath(itemTrack[i])), fault)

BatchNext ==
    \/ \E i \in Items : ItemStart(i)
    \/ \E i \in Items : ItemStage(i)
    \/ \E i \in Items : Collect(i)
    \/ ProcessTracksReturn

SpecBatch == BatchInit /\ [][BatchNext]_vars

\* the steps that need nothing but a running thread and the local machine; the
\* calls to the remote platform (search, fetch) are not among them, since the code
\* puts no time limit on them
LocalSteps(i) ==
    \/ ItemStart(i)
    \/ ItemNormalized(i)
    \/ ItemTagged(i)
    \/ \E fault \in BatchFaults : ItemRecord(i, FileChecksum(FinalPath(itemTrack[i])), fault)
    \/ Collect(i)

SpecBatchLive ==
    /\ BatchInit
    /\ [][BatchNext]_vars
    /\ \A i \in Items : WF_vars(LocalSteps(i))
    /\ WF_vars(ProcessTracksReturn)

----------------------------------------------------------------------------
(* test_download.main and download_and_tag of youtube_downloader.py *)

\* m4a_path = Path(ydl.prepare_filename(info)).with_suffix(".m4a")
VideoPath(t) == <<"downloads", "butterflies", t>>

\* the rows of the playlist: track t1, and track t2 with or without a name
Playlists ==
    { << [id |-> "t1", named |-> TRUE], [id |-> "t2", named |-> n] >> : n \in BOOLEAN }

\* the database faults a run may meet in record_download
MainFaults == {0, 3}

MainInit ==
    /\ tracks = [t \in TrackIds |-> [present |-> TRUE, checksum |-> NULL]]
    /\ downloads = [p \in Pairs |-> 0]
    /\ user_history = [p \in Pairs |-> 0]
    /\ uniqueDownloads \in BOOLEAN
    /\ RecordIdle
    /\ SearchIdle
    /\ BatchIdle
    /\ ChannelIdle
    /\ TrimIdle
    /\ RaceIdle
    /\ playlist \in Playlists
    /\ mRun = 1
    /\ mIdx = 1
    /\ mPc = "call"
    /\ mResult = Unset
    /\ mRecFailed = FALSE
    /\ mFetchFailed = FALSE
    /\ mTagFailed = FALSE
    /\ mChecksum = NULL
    /\ mTrail = <<>>
    /\ nSearch = [t \in TrackIds |-> 0]
    /\ nFetch = [t \in TrackIds |-> 0]

CurTrack == playlist[mIdx].id

\* a variant of the order below in which the tagging block is skipped
SkipTagging(st) ==
    CASE st = "Resolving"   -> "Fetching"
      [] st = "Fetching"    -> "Normalizing"
      [] st = "Normalizing" -> "Recording"
      [] OTHER              -> "returned"

\* the stage download_and_tag runs after stage st has ended
StageAfter(st) ==
    CASE st = "Resolving"   -> "Fetching"
      [] st = "Fetching"    -> "Normalizing"
      [] st = "Normalizing" -> "Tagging"
      [] st = "Tagging"     -> "Recording"
      [] OTHER              -> "returned"

\* control enters stage st
Enter(st) ==
    /\ mPc' = st
    /\ mTrail' = Append(mTrail, st)

\* what the function does when the tagging block raised; a variant gives the item up
AbortOnTagFailure == "abort"
OnTagFailure == "continue"

\* what the function does when the fetch raised; a variant goes on with the file
ContinueOnFetchFailure == "continue"
OnFetchFailure == "return"

\* download_and_tag(track, output_dir, user_id) is called; `if not name: return None`
DCall ==
    /\ mPc = "call"
    /\ mIdx <= Len(playlist)
    /\ mRecFailed' = FALSE
    /\ mFetchFailed' = FALSE
    /\ mTagFailed' = FALSE
    /\ mChecksum' = NULL
    /\ IF playlist[mIdx].named
       THEN mPc' = "Resolving" /\ mTrail' = <<"Resolving">> /\ mResult' = Unset
       ELSE mPc' = "returned" /\ mTrail' = <<>> /\ mResult' = None
    /\ UNCHANGED <<playlist, mRun, mIdx, nSearch, nFetch>>
    /\ UNCHANGED <<searchVars, dbVars, rdVars, batchVars, chanVars, trimVars, raceVars>>

\* search_youtube_for_song(name, artist) returns a url
DResolved ==
    /\ mPc = "Resolving"
    /\ nSearch' = [nSearch EXCEPT ![CurTrack] = @ + 1]
    /\ Enter(StageAfter("Resolving"))
    /\ UNCHANGED <<playlist, mRun, mIdx, mResult, mRecFailed, mFetchFailed, mTagFailed, mChecksum, nFetch>>
    /\ UNCHANGED <<searchVars, dbVars, rdVars, batchVars, chanVars, trimVars, raceVars>>

\* search_youtube_for_song(name, artist) returns no url: `return None`
DNoMatch ==
    /\ mPc = "Resolving"
    /\ nSearch' = [nSearch EXCEPT ![CurTrack] = @ + 1]
    /\ mPc' = "returned"
    /\ mResult' = None
    /\ UNCHANGED <<playlist, mRun, mIdx, mRecFailed, mFetchFailed, mTagFailed, mChecksum, mTrail, nFetch>>
    /\ UNCHANGED <<searchVars, dbVars, rdVars, batchVars, chanVars, trimVars, raceVars>>

\* ydl.extract_info(youtube_url, download=True) succeeds
DFetched ==
    /\ mPc = "Fetching"
    /\ nFetch' = [nFetch EXCEPT ![CurTrack] = @ + 1]
    /\ Enter(StageAfter("Fetching"))
    /\ UNCHANGED <<playlist, mRun, mIdx, mResult, mRecFailed, mFetchFailed, mTagFailed, mChecksum, nSearch>>
    /\ UNCHANGED <<searchVars, dbVars, rdVars, batchVars, chanVars, trimVars, raceVars>>

\* ydl.extract_info(youtube_url, download=True) raises: logged, `return None`
DFetchFails ==
    /\ mPc = "Fetching"
    /\ nFetch' = [nFetch EXCEPT ![CurTrack] = @ + 1]
    /\ mFetchFailed' = TRUE
    /\ IF OnFetchFailure = "return"
       THEN /\ mPc' = "returned"
            /\ mResult' = None
            /\ UNCHANGED mTrail
       ELSE /\ Enter(StageAfter("Fetching"))
            /\ UNCHANGED mResult
    /\ UNCHANGED <<playlist, mRun, mIdx, mRecFailed, mTagFailed, mChecksum, nSearch>>
    /\ UNCHANGED <<searchVars, dbVars, rdVars, batchVars, chanVars, trimVars, raceVars>>

\* trim_silence_m4a(m4a_path): it catches its own failures
DNormalized ==
    /\ mPc = "Normalizing"
    /\ Enter(StageAfter("Normalizing"))
    /\ UNCHANGED <<playlist, mRun, mIdx, mResult, mRecFailed, mFetchFailed, mTagFailed, mChecksum, nSearch, nFetch>>
    /\ UNCHANGED <<searchVars, dbVars, rdVars, batchVars, chanVars, trimVars, raceVars>>

\* the tagging block: it ends normally (ok), or raises and the except clause logs it
DTagged(ok) ==
    /\ mPc = "Tagging"
    /\ mTagFailed' = ~ok
    /\ IF ok \/ OnTagFailure = "continue"
       THEN /\ Enter(StageAfter("Tagging"))
            /\ UNCHANGED mResult
       ELSE /\ mPc' = "returned"
            /\ mResult' = None
            /\ UNCHANGED mTrail
    /\ UNCHANGED <<playlist, mRun, mIdx, mRecFailed, mFetchFailed, mChecksum, nSearch, nFetch>>
    /\ UNCHANGED <<searchVars, dbVars, rdVars, batchVars, chanVars, trimVars, raceVars>>

\* compute_checksum, then models.record_download inside try/except, then `return m4a_path`
DRecord(c, fault) ==
    /\ mPc = "Recording"
    /\ mChecksum' = c
    /\ LET r == RecordDownload(tracks, downloads, user_history, uniqueDownloads,
                               MainUser, CurTrack, c, fault)
       IN  /\ tracks' = r.tracks
           /\ downloads' = r.downloads
           /\ user_history' = r.user_history
           /\ mRecFailed' = r.raised
    /\ mResult' = VideoPath(CurTrack)
    /\ mPc' = "returned"
    /\ UNCHANGED <<playlist, mRun, mIdx, mTagFailed, mFetchFailed, mTrail, nSearch, nFetch, uniqueDownloads>>
    /\ UNCHANGED <<searchVars, rdVars, batchVars, chanVars, trimVars, raceVars>>

\* the for loop of main() prints the outcome and goes to the next track
MainLoop ==
    /\ mPc = "returned"
    /\ mIdx' = mIdx + 1
    /\ mPc' = IF mIdx + 1 <= Len(playlist) THEN "call" ELSE "exit"
    /\ UNCHANGED <<playlist, mRun, mResult, mRecFailed, mFetchFailed, mTagFailed, mChecksum, mTrail, nSearch, nFetch>>
    /\ UNCHANGED <<searchVars, dbVars, rdVars, batchVars, chanVars, trimVars, raceVars>>

\* main() is run again over the same playlist
MainRerun ==
    /\ mPc = "exit"
    /\ mRun < MaxRuns
    /\ mRun' = mRun + 1
    /\ mIdx' = 1
    /\ mPc' = "call"
    /\ UNCHANGED <<playlist, mResult, mRecFailed, mFetchFailed, mTagFailed, mChecksum, mTrail, nSearch, nFetch>>
    /\ UNCHANGED <<searchVars, dbVars, rdVars, batchVars, chanVars, trimVars, raceVars>>

MainNext ==
    \/ DCall
    \/ DResolved
    \/ DNoMatch
    \/ DFetched
    \/ DFetchFails
    \/ DNormalized
    \/ \E ok \in BOOLEAN : DTagged(ok)
    \/ \E c \in Checksums, fault \in MainFaults : DRecord(c, fault)
    \/ MainLoop
    \/ MainRerun

SpecMain == MainInit /\ [][MainNext]_vars

----------------------------------------------------------------------------
(* search_youtube_for_song *)

ignore_phrases == { <<"music", "video">>, <<"official", "video">> }
prefer_phrases == { <<"lyric">>, <<"official", "audio">> }

base_queries == << "lyrics", "official audio", "plain" >>

\* a variant that issues the channel-prefixed queries last
UnprefixedFirst(chan) ==
    [i \in 1..3 |-> [prefix |-> "", suffix |-> base_queries[i]]]
    \o (IF chan # "" THEN [i \in 1..3 |-> [prefix |-> chan, suffix |-> base_queries[i]]]
                     ELSE <<>>)

\* the ordered query list: channel-prefixed queries first when a channel is known
queries(chan) ==
    (IF chan # "" THEN [i \in 1..3 |-> [prefix |-> chan, suffix |-> base_queries[i]]]
                  ELSE <<>>)
    \o [i \in 1..3 |-> [prefix |-> "", suffix |-> base_queries[i]]]

\* a variant that tests the title alone
IgnoredTitleOnly(title, desc) ==
    \E phrase \in ignore_phrases : In(phrase, title)

\* `any(phrase in title or phrase in desc for phrase in ignore_phrases)`
Ignored(title, desc) ==
    \E phrase \in ignore_phrases : In(phrase, title) \/ In(phrase, desc)

\* the score of one entry, from its lower-cased title
EntryScore(title, nm, art) ==
      (IF \E p \in prefer_phrases : In(p, title) THEN 3 ELSE 0)
    + (IF In(Lowercase(art), title) THEN 2 ELSE 0)
    + (IF In(Lowercase(nm), title) THEN 2 ELSE 0)

\* a variant in which a later candidate wins a tie
BetterOrEqual(score, best) == score >= best

\* `if score > best_score`
Better(score, best) == score > best

\* one iteration of `for entry in info.get("entries", [])`
ScanEntry(acc, entry, nm, art) ==
    LET title == Lowercase(entry.title)
        desc  == Lowercase(entry.description)
        url   == entry.webpage_url
    IN  IF url = NoUrl THEN acc
        ELSE IF Ignored(title, desc) THEN acc
        ELSE LET score == EntryScore(title, nm, art)
             IN  IF Better(score, acc.best_score)
                 THEN [best_url |-> url, best_score |-> score]
                 ELSE acc

RECURSIVE ScanEntries(_, _, _, _)
ScanEntries(acc, entries, nm, art) ==
    IF entries = <<>> THEN acc
    ELSE ScanEntries(ScanEntry(acc, Head(entries), nm, art), Tail(entries), nm, art)

\* a variant that never leaves the loop early
NeverBreak(url) == FALSE

\* `if best_url: break`
BreakAfterQuery(url) == url # NoUrl

(* The search backend: what a query may return *)
Entry(t, d, u, url) == [title |-> t, description |-> d, uploader |-> u, webpage_url |-> url]

Catalogue ==
    { Entry(<<"Coldplay", "Yellow", "Lyric", "Video">>, <<>>, <<"Coldplay", "VEVO">>, "u1"),
      Entry(<<"Yellow", "Official", "Music", "Video">>, <<>>, <<"Coldplay">>, "u2"),
      Entry(<<"Coldplay", "Yellow", "Official", "Audio">>, <<"Official", "Video">>, <<"Coldplay">>, "u3"),
      Entry(<<"Cooking", "Show">>, <<>>, <<"Chef">>, "u4"),
      Entry(<<"yellow">>, <<>>, <<"Coldplay">>, "u5"),
      Entry(<<"Coldplay", "Live">>, <<>>, <<"Fan">>, "u6"),
      Entry(<<"Coldplay", "Yellow", "Lyric", "Video">>, <<>>, <<"Coldplay">>, NoUrl) }

RECURSIVE SeqsUpTo(_, _)
SeqsUpTo(S, n) ==
    IF n = 0 THEN { <<>> }
    ELSE LET shorter == SeqsUpTo(S, n - 1)
         IN  shorter \cup { Append(s, x) : s \in { t \in shorter : Len(t) = n - 1 }, x \in S }

RECURSIVE Flatten(_)
Flatten(h) == IF h = <<>> THEN <<>> ELSE Head(h).entries \o Flatten(Tail(h))

\* every entry examined so far, in the order examined
examined == Flatten(issued)

Min(a, b) == IF a < b THEN a ELSE b

SearchTracks ==
    { [name |-> <<"Yellow">>, artist |-> <<"Coldplay">>],
      [name |-> <<"Yellow">>, artist |-> <<>>],
      [name |-> <<>>,         artist |-> <<"Coldplay">>] }

SearchInit ==
    /\ StoreIdle
    /\ RecordIdle
    /\ BatchIdle
    /\ MainIdle
    /\ ChannelIdle
    /\ TrimIdle
    /\ RaceIdle
    /\ \E t \in SearchTracks : name = t.name /\ artist = t.artist
    /\ channel_url \in {"", "chan"}
    /\ qIdx = 1
    /\ best_url = NoUrl
    /\ best_score = -1
    /\ issued = <<>>
    /\ sPc = "start"
    /\ sResult = [url |-> NoUrl, channel |-> NoUrl]

\* `if not name: return None, None`
SearchNoName ==
    /\ sPc = "start"
    /\ name = <<>>
    /\ sPc' = "done"
    /\ sResult' = [url |-> NoUrl, channel |-> NoUrl]
    /\ UNCHANGED <<name, artist, channel_url, qIdx, best_url, best_score, issued>>
    /\ UNCHANGED <<dbVars, rdVars, batchVars, mainVars, chanVars, trimVars, raceVars>>

\* the query list is built; the loop starts
SearchBegin ==
    /\ sPc = "start"
    /\ name # <<>>
    /\ sPc' = "loop"
    /\ UNCHANGED <<name, artist, channel_url, qIdx, best_url, best_score, issued, sResult>>
    /\ UNCHANGED <<dbVars, rdVars, batchVars, mainVars, chanVars, trimVars, raceVars>>

\* one iteration of `for q in queries` whose extract_info raises: log and continue
SearchQueryFails ==
    /\ sPc = "loop"
    /\ qIdx <= Len(queries(channel_url))
    /\ Cardinality({ k \in 1..Len(issued) : issued[k].raised }) < MaxFailures
    /\ issued' = Append(issued, [q |-> queries(channel_url)[qIdx], raised |-> TRUE, entries |-> <<>>])
    /\ qIdx' = qIdx + 1
    /\ UNCHANGED <<name, artist, channel_url, best_url, best_score, sPc, sResult>>
    /\ UNCHANGED <<dbVars, rdVars, batchVars, mainVars, chanVars, trimVars, raceVars>>

\* one iteration of `for q in queries` whose extract_info returns entries
SearchQuery ==
    /\ sPc = "loop"
    /\ qIdx <= Len(queries(channel_url))
    /\ \E res \in SeqsUpTo(Catalogue, Min(MaxEntries, MaxExamined - Len(examined))) :
         LET acc == ScanEntries([best_url |-> best_url, best_score |-> best_score], res, name, artist)
         IN  /\ issued' = Append(issued, [q |-> queries(channel_url)[qIdx], raised |-> FALSE, entries |-> res])
             /\ best_url' = acc.best_url
             /\ best_score' = acc.best_score
             /\ IF BreakAfterQuery(acc.best_url)
                THEN sPc' = "ret" /\ qIdx' = qIdx
                ELSE sPc' = "loop" /\ qIdx' = qIdx + 1
    /\ UNCHANGED <<name, artist, channel_url, sResult>>
    /\ UNCHANGED <<dbVars, rdVars, batchVars, mainVars, chanVars, trimVars, raceVars>>

\* the loop is exhausted
SearchExhausted ==
    /\ sPc = "loop"
    /\ qIdx > Len(queries(channel_url))
    /\ sPc' = "ret"
    /\ UNCHANGED <<name, artist, channel_url, qIdx, best_url, best_score, issued, sResult>>
    /\ UNCHANGED <<dbVars, rdVars, batchVars, mainVars, chanVars, trimVars, raceVars>>

\* `return best_url, channel_url`
SearchReturn ==
    /\ sPc = "ret"
    /\ sPc' = "done"
    /\ sResult' = [url |-> best_url, channel |-> channel_url]
    /\ UNCHANGED <<name, artist, channel_url, qIdx, best_url, best_score, issued>>
    /\ UNCHANGED <<dbVars, rdVars, batchVars, mainVars, chanVars, trimVars, raceVars>>

SearchNext ==
    \/ SearchNoName
    \/ SearchBegin
    \/ SearchQueryFails
    \/ SearchQuery
    \/ SearchExhausted
    \/ SearchReturn

SpecSearch == SearchInit /\ [][SearchNext]_vars

----------------------------------------------------------------------------
(* The channel cache of models.py and find_or_cache_artist_channel *)

\* the channel references the platform knows; anything else is not a channel
ChannelUrls == {"chanA", "chanB"}

\* characters that are neither letters nor digits
Punct == {" ", "!", "-"}

\* the words the regular expression of normalize_name removes
MarketingTokens == {"vevo", "topic", "official", "music", "channel"}

\* s.lower(), letter by letter (a marketing word is kept as one unit)
LowerAtom(c) ==
    CASE c = "A"        -> "a"
      [] c = "B"        -> "b"
      [] c = "X"        -> "x"
      [] c = "Official" -> "official"
      [] c = "VEVO"     -> "vevo"
      [] OTHER          -> c

\* the letters of a unit
Chars(c) ==
    CASE c = "official" -> <<"o", "f", "f", "i", "c", "i", "a", "l">>
      [] c = "vevo"     -> <<"v", "e", "v", "o">>
      [] OTHER          -> <<c>>

\* \b on both sides: the unit at position i is a word of its own
AtWordBoundary(s, i) ==
    /\ (i = 1 \/ s[i - 1] \in Punct)
    /\ (i = Len(s) \/ s[i + 1] \in Punct)

RECURSIVE Concat(_)
Concat(parts) == IF parts = <<>> THEN <<>> ELSE Head(parts) \o Concat(Tail(parts))

\* lower-case, drop the marketing words, drop everything that is not a letter or digit
normalize_name(s) ==
    LET low == [i \in 1..Len(s) |-> LowerAtom(s[i])]
        kept == [i \in 1..Len(s) |->
                    IF low[i] \in MarketingTokens /\ AtWordBoundary(low, i)
                    THEN <<>> ELSE Chars(low[i])]
    IN  SelectSeq(Concat(kept), LAMBDA c : c \notin Punct)

\* a variant of the lookup that never finds a row
AlwaysMiss(tbl, a) == ""

\* SELECT channel_url FROM youtube_channels WHERE artist_name=%s; "" when there is
\* no row or the row holds no url
get_artist_channel(tbl, a) == IF tbl[a] = Absent THEN "" ELSE tbl[a]

\* a variant of the insert that writes nothing
NoWrite(tbl, a, u) == tbl

\* a variant of the insert that keeps the row already there
InsertIgnoreChannel(tbl, a, u) == IF tbl[a] = Absent THEN [tbl EXCEPT ![a] = u] ELSE tbl

\* INSERT ... ON DUPLICATE KEY UPDATE channel_url = VALUES(channel_url)
set_artist_channel(tbl, a, u) == [tbl EXCEPT ![a] = u]

\* one line of the output of the discovery search: unparsable, or a record
Garbage == [kind |-> "garbage", url |-> "", title |-> <<>>]
Line(url, title) == [kind |-> "json", url |-> url, title |-> title]

DiscoveryLines ==
    { Garbage,
      Line("chanA", <<"A", "b">>),
      Line("chanB", <<"a", "x", " ", "VEVO">>),
      Line("vidC", <<"a", "b">>) }

\* sum(a == b for a, b in zip(artist_norm, title_norm))
Matches(a, t) == Cardinality({ i \in 1..Min(Len(a), Len(t)) : a[i] = t[i] })

\* max(len(artist_norm), len(title_norm), 1)
Denominator(a, t) ==
    IF Len(a) >= Len(t) /\ Len(a) >= 1 THEN Len(a)
    ELSE IF Len(t) >= 1 THEN Len(t) ELSE 1

\* a variant that scores every parsed line, whatever its url
ScanLineAnyUrl(acc, line, artist_norm) ==
    IF line.kind = "garbage" THEN acc
    ELSE LET title_norm == normalize_name(line.title)
             num == Matches(artist_norm, title_norm)
             den == Denominator(artist_norm, title_norm)
         IN  IF num * acc.den > acc.num * den
             THEN [url |-> line.url, num |-> num, den |-> den]
             ELSE acc

\* the body of `for line in output.splitlines()`; the similarity is kept as a fraction
ScanLine(acc, line, artist_norm) ==
    IF line.kind = "garbage" THEN acc
    ELSE IF line.url \notin ChannelUrls THEN acc
    ELSE LET title_norm == normalize_name(line.title)
             num == Matches(artist_norm, title_norm)
             den == Denominator(artist_norm, title_norm)
         IN  IF num * acc.den > acc.num * den
             THEN [url |-> line.url, num |-> num, den |-> den]
             ELSE acc

RECURSIVE ScanLines(_, _, _)
ScanLines(acc, lines, artist_norm) ==
    IF lines = <<>> THEN acc
    ELSE ScanLines(ScanLine(acc, Head(lines), artist_norm), Tail(lines), artist_norm)

\* best_match_url after the loop, from best_match_url = "" and best_similarity = 0.0
BestMatch(lines, a) == ScanLines([url |-> "", num |-> 0, den |-> 1], lines, normalize_name(a)).url

ChannelInit ==
    /\ StoreIdle
    /\ RecordIdle
    /\ BatchIdle
    /\ MainIdle
    /\ TrimIdle
    /\ RaceIdle
    /\ SearchIdle
    /\ ChannelIdle

\* a call models.set_artist_channel(a, u) from some caller
CallSetArtistChannel(a, u, fault) ==
    /\ chCalls < MaxCacheCalls
    /\ chCalls' = chCalls + 1
    /\ IF fault
       THEN UNCHANGED <<youtube_channels, chLastSet>>
       ELSE /\ youtube_channels' = set_artist_channel(youtube_channels, a, u)
            /\ chLastSet' = [chLastSet EXCEPT ![a] = u]
    /\ UNCHANGED <<chGets, chGot, rName, rArtist, rPc, rBest, rDiscoveries, rFault, rChannel, rQueries, rLines, rRuns>>
    /\ UNCHANGED <<searchVars, dbVars, rdVars, batchVars, mainVars, trimVars, raceVars>>

\* a call models.get_artist_channel(a) from some caller
CallGetArtistChannel(a, fault) ==
    /\ chCalls < MaxCacheCalls
    /\ chCalls' = chCalls + 1
    /\ IF fault
       THEN UNCHANGED <<chGets, chGot>>
       ELSE /\ chGets' = chGets + 1
            /\ chGot' = [artist |-> a, value |-> get_artist_channel(youtube_channels, a)]
    /\ UNCHANGED <<youtube_channels, chLastSet, rName, rArtist, rPc, rBest, rDiscoveries, rFault, rChannel, rQueries, rLines, rRuns>>
    /\ UNCHANGED <<searchVars, dbVars, rdVars, batchVars, mainVars, trimVars, raceVars>>

\* search_youtube_for_song(nm, a) is called; `if not name: return None, None`
ResolveStart(nm, a) ==
    /\ rPc \in {"idle", "done", "raised"}
    /\ rRuns < MaxResolves
    /\ rRuns' = rRuns + 1
    /\ rName' = nm
    /\ rArtist' = a
    /\ rPc' = IF nm = "" THEN "done" ELSE "lookup"
    /\ rBest' = ""
    /\ rDiscoveries' = 0
    /\ rFault' = FALSE
    /\ rChannel' = ""
    /\ rQueries' = <<>>
    /\ rLines' = <<>>
    /\ UNCHANGED <<youtube_channels, chCalls, chGets, chGot, chLastSet>>
    /\ UNCHANGED <<searchVars, dbVars, rdVars, batchVars, mainVars, trimVars, raceVars>>

\* find_or_cache_artist_channel: cached = models.get_artist_channel(artist)
FindLookup(fault) ==
    /\ rPc = "lookup"
    /\ IF fault
       THEN /\ rPc' = "raised"
            /\ rFault' = TRUE
            /\ UNCHANGED rChannel
       ELSE LET cached == get_artist_channel(youtube_channels, rArtist)
            IN  /\ rFault' = rFault
                /\ IF cached # ""
                   THEN rChannel' = cached /\ rPc' = "queries"
                   ELSE rChannel' = rChannel /\ rPc' = "discover"
    /\ UNCHANGED <<youtube_channels, chCalls, chGets, chGot, chLastSet>>
    /\ UNCHANGED <<rName, rArtist, rBest, rDiscoveries, rQueries, rLines, rRuns>>
    /\ UNCHANGED <<searchVars, dbVars, rdVars, batchVars, mainVars, trimVars, raceVars>>

\* the discovery search exits with an error: CalledProcessError, `return ""`
FindDiscoverFails ==
    /\ rPc = "discover"
    /\ rDiscoveries' = rDiscoveries + 1
    /\ rChannel' = ""
    /\ rPc' = "queries"
    /\ UNCHANGED <<youtube_channels, chCalls, chGets, chGot, chLastSet>>
    /\ UNCHANGED <<rName, rArtist, rBest, rFault, rQueries, rLines, rRuns>>
    /\ UNCHANGED <<searchVars, dbVars, rdVars, batchVars, mainVars, trimVars, raceVars>>

\* the discovery search prints its lines; the best channel is picked
FindDiscover(lines) ==
    /\ rPc = "discover"
    /\ rDiscoveries' = rDiscoveries + 1
    /\ LET best == BestMatch(lines, rArtist)
       IN  /\ rBest' = best
           /\ IF best # ""
              THEN rPc' = "store" /\ rChannel' = rChannel
              ELSE rPc' = "queries" /\ rChannel' = ""
    /\ UNCHANGED <<youtube_channels, chCalls, chGets, chGot, chLastSet>>
    /\ rLines' = lines
    /\ UNCHANGED <<rName, rArtist, rFault, rQueries, rRuns>>
    /\ UNCHANGED <<searchVars, dbVars, rdVars, batchVars, mainVars, trimVars, raceVars>>

\* models.set_artist_channel(artist, best_match_url); return best_match_url
FindStore(fault) ==
    /\ rPc = "store"
    /\ IF fault
       THEN /\ rPc' = "raised"
            /\ rFault' = TRUE
            /\ UNCHANGED <<youtube_channels, chLastSet, rChannel>>
       ELSE /\ youtube_channels' = set_artist_channel(youtube_channels, rArtist, rBest)
            /\ chLastSet' = [chLastSet EXCEPT ![rArtist] = rBest]
            /\ rChannel' = rBest
            /\ rPc' = "queries"
            /\ rFault' = rFault
    /\ rLines' = <<>>
    /\ UNCHANGED <<chCalls, chGets, chGot>>
    /\ UNCHANGED <<rName, rArtist, rBest, rDiscoveries, rQueries, rRuns>>
    /\ UNCHANGED <<searchVars, dbVars, rdVars, batchVars, mainVars, trimVars, raceVars>>

\* back in search_youtube_for_song: the query list is built from channel_url
ResolveQueries ==
    /\ rPc = "queries"
    /\ rQueries' = queries(rChannel)
    /\ rLines' = <<>>
    /\ rPc' = "done"
    /\ UNCHANGED <<youtube_channels, chCalls, chGets, chGot, chLastSet>>
    /\ UNCHANGED <<rName, rArtist, rBest, rDiscoveries, rFault, rChannel, rRuns>>
    /\ UNCHANGED <<searchVars, dbVars, rdVars, batchVars, mainVars, trimVars, raceVars>>

ChannelNext ==
    \/ \E a \in ArtistNames, u \in ChannelUrls \cup {""}, fault \in BOOLEAN :
            CallSetArtistChannel(a, u, fault)
    \/ \E a \in ArtistNames, fault \in BOOLEAN : CallGetArtistChannel(a, fault)
    \/ \E nm \in {"", "Yellow"}, a \in ArtistNames : ResolveStart(nm, a)
    \/ \E fault \in BOOLEAN : FindLookup(fault)
    \/ FindDiscoverFails
    \/ \E lines \in SeqsUpTo(DiscoveryLines, MaxLines) : FindDiscover(lines)
    \/ \E fault \in BOOLEAN : FindStore(fault)
    \/ ResolveQueries

SpecChannel == ChannelInit /\ [][ChannelNext]_vars

----------------------------------------------------------------------------
(* Two pool threads in find_or_cache_artist_channel for the same artist *)

RaceInit ==
    /\ StoreIdle
    /\ RecordIdle
    /\ BatchIdle
    /\ MainIdle
    /\ TrimIdle
    /\ SearchIdle
    /\ ChannelIdle
    /\ raceArtist \in ArtistNames
    /\ racePc = [w \in RaceWorkers |-> "lookup"]
    /\ raceBest = [w \in RaceWorkers |-> ""]
    /\ raceRet = [w \in RaceWorkers |-> ""]
    /\ raceWrites = <<>>

\* call w returns r
RaceReturn(w, r) ==
    /\ racePc' = [racePc EXCEPT ![w] = "done"]
    /\ raceRet' = [raceRet EXCEPT ![w] = r]

\* cached = models.get_artist_channel(artist); if cached: return cached
RaceLookup(w) ==
    /\ racePc[w] = "lookup"
    /\ LET cached == get_artist_channel(youtube_channels, raceArtist)
       IN  IF cached # ""
           THEN RaceReturn(w, cached)
           ELSE /\ racePc' = [racePc EXCEPT ![w] = "discover"]
                /\ UNCHANGED raceRet
    /\ UNCHANGED <<raceArtist, raceBest, raceWrites>>
    /\ UNCHANGED <<searchVars, dbVars, rdVars, batchVars, mainVars, chanVars, trimVars>>

\* the discovery search of call w exits with an error: `return ""`
RaceDiscoverFails(w) ==
    /\ racePc[w] = "discover"
    /\ RaceReturn(w, "")
    /\ UNCHANGED <<raceArtist, raceBest, raceWrites>>
    /\ UNCHANGED <<searchVars, dbVars, rdVars, batchVars, mainVars, chanVars, trimVars>>

\* the discovery search of call w prints its lines; the loop picks the best channel
RaceDiscover(w, lines) ==
    /\ racePc[w] = "discover"
    /\ LET best == BestMatch(lines, raceArtist)
       IN  /\ raceBest' = [raceBest EXCEPT ![w] = best]
           /\ IF best # ""
              THEN racePc' = [racePc EXCEPT ![w] = "store"] /\ UNCHANGED raceRet
              ELSE RaceReturn(w, "")
    /\ UNCHANGED <<raceArtist, raceWrites>>
    /\ UNCHANGED <<searchVars, dbVars, rdVars, batchVars, mainVars, chanVars, trimVars>>

\* models.set_artist_channel(artist, best_match_url); return best_match_url
RaceStore(w) ==
    /\ racePc[w] = "store"
    /\ youtube_channels' = set_artist_channel(youtube_channels, raceArtist, raceBest[w])
    /\ raceWrites' = Append(raceWrites, raceBest[w])
    /\ RaceReturn(w, raceBest[w])
    /\ UNCHANGED <<raceArtist, raceBest>>
    /\ UNCHANGED <<chCalls, chGets, chGot, chLastSet, rName, rArtist, rPc, rBest, rDiscoveries,
                   rFault, rChannel, rQueries, rLines, rRuns>>
    /\ UNCHANGED <<searchVars, dbVars, rdVars, batchVars, mainVars, trimVars>>

RaceNext ==
    \/ \E w \in RaceWorkers : RaceLookup(w)
    \/ \E w \in RaceWorkers : RaceDiscoverFails(w)
    \/ \E w \in RaceWorkers, lines \in SeqsUpTo(DiscoveryLines, MaxLines) : RaceDiscover(w, lines)
    \/ \E w \in RaceWorkers : RaceStore(w)

SpecRace == RaceInit /\ [][RaceNext]_vars

----------------------------------------------------------------------------
(* trim_silence_m4a of youtube_dl.py and of youtube_downloader.py *)

\* the shortest non-silent span, in milliseconds, that youtube_dl.py still trims to
MinKept == 500

\* positions in a clip, in milliseconds
Times(n) == { 250 * k : k \in 0..n }

\* what detect_nonsilent may report for a clip of length len: nothing, or the span
\* from the start of the first non-silent range to the end of the last
Clips ==
    { [len |-> l, ranges |-> r] :
        l \in Times(MaxClip),
        r \in { <<>> } \cup { << <<a, b>> >> : a \in Times(MaxClip), b \in Times(MaxClip) } }

WellFormed(c) == \A k \in 1..Len(c.ranges) : c.ranges[k][1] < c.ranges[k][2] /\ c.ranges[k][2] <= c.len

\* what a destination file holds when the encoder failed after the file was opened
\* for writing
Truncated == Content(0, 0, "truncated")

\* trimmed.export(...): the trimmed span, encoded anew
Exported(c) == Content(c.ranges[1][1], c.ranges[Len(c.ranges)][2], "exported")

TrimInit ==
    /\ StoreIdle
    /\ RecordIdle
    /\ BatchIdle
    /\ MainIdle
    /\ SearchIdle
    /\ ChannelIdle
    /\ RaceIdle
    /\ tVariant \in {"youtube_dl", "youtube_downloader"}
    /\ tClip \in { c \in Clips : WellFormed(c) }
    /\ tOrig = Content(0, tClip.len, "downloaded")
    /\ tFile = tOrig
    /\ tTemp = {}
    /\ tPc = "decode"
    /\ tFailed = FALSE
    /\ tReturn = ""

\* the except clause: log, then `return file_path`
TrimCaught ==
    /\ tFailed' = TRUE
    /\ tPc' = "returned"
    /\ tReturn' = "file_path"

TrimReturns ==
    /\ tPc' = "returned"
    /\ tReturn' = "file_path"
    /\ UNCHANGED tFailed

\* audio = AudioSegment.from_file(file_path)
TrimDecode(ok) ==
    /\ tPc = "decode"
    /\ IF ok THEN tPc' = "detect" /\ UNCHANGED <<tFailed, tReturn>> ELSE TrimCaught
    /\ UNCHANGED <<tVariant, tClip, tOrig, tFile, tTemp>>
    /\ UNCHANGED <<searchVars, dbVars, rdVars, batchVars, mainVars, chanVars, raceVars>>

\* silence.detect_nonsilent(...); `if not nonsilent: return file_path`; in youtube_dl.py
\* also `if end_trim - start_trim < 500: return file_path`
TrimDetect(ok) ==
    /\ tPc = "detect"
    /\ IF ~ok THEN TrimCaught
       ELSE IF tClip.ranges = <<>> THEN TrimReturns
       ELSE IF tVariant = "youtube_dl"
               /\ tClip.ranges[Len(tClip.ranges)][2] - tClip.ranges[1][1] < MinKept
            THEN TrimReturns
       ELSE /\ tPc' = IF tVariant = "youtube_dl" THEN "temp" ELSE "export"
            /\ UNCHANGED <<tFailed, tReturn>>
    /\ UNCHANGED <<tVariant, tClip, tOrig, tFile, tTemp>>
    /\ UNCHANGED <<searchVars, dbVars, rdVars, batchVars, mainVars, chanVars, raceVars>>

\* youtube_dl.py: with NamedTemporaryFile(delete=False, suffix=".m4a") as tmp
TrimTemp(ok) ==
    /\ tPc = "temp"
    /\ IF ok
       THEN /\ tTemp' = tTemp \cup {"tmp"}
            /\ tPc' = "export"
            /\ UNCHANGED <<tFailed, tReturn>>
       ELSE /\ TrimCaught
            /\ UNCHANGED tTemp
    /\ UNCHANGED <<tVariant, tClip, tOrig, tFile>>
    /\ UNCHANGED <<searchVars, dbVars, rdVars, batchVars, mainVars, chanVars, raceVars>>

\* youtube_dl.py: trimmed.export(tmp_path, ...): the file at file_path is not touched
TrimExportToTemp(ok) ==
    /\ tPc = "export"
    /\ tVariant = "youtube_dl"
    /\ IF ok THEN tPc' = "replace" /\ UNCHANGED <<tFailed, tReturn>> ELSE TrimCaught
    /\ UNCHANGED <<tVariant, tClip, tOrig, tFile, tTemp>>
    /\ UNCHANGED <<searchVars, dbVars, rdVars, batchVars, mainVars, chanVars, raceVars>>

\* youtube_downloader.py: trimmed.export(file_path, ...) writes over the file itself;
\* a failing export leaves it as it was or, once opened for writing, truncated
TrimExportInPlace(ok, truncated) ==
    /\ tPc = "export"
    /\ tVariant = "youtube_downloader"
    /\ IF ok
       THEN /\ tFile' = Exported(tClip)
            /\ TrimReturns
       ELSE /\ tFile' = IF truncated THEN Truncated ELSE tFile
            /\ TrimCaught
    /\ UNCHANGED <<tVariant, tClip, tOrig, tTemp>>
    /\ UNCHANGED <<searchVars, dbVars, rdVars, batchVars, mainVars, chanVars, raceVars>>

\* youtube_dl.py: tmp_path.replace(file_path)
TrimReplace(ok) ==
    /\ tPc = "replace"
    /\ IF ok
       THEN /\ tFile' = Exported(tClip)
            /\ tTemp' = tTemp \ {"tmp"}
            /\ TrimReturns
       ELSE /\ TrimCaught
            /\ UNCHANGED <<tFile, tTemp>>
    /\ UNCHANGED <<tVariant, tClip, tOrig>>
    /\ UNCHANGED <<searchVars, dbVars, rdVars, batchVars, mainVars, chanVars, raceVars>>

TrimNext ==
    \/ \E ok \in BOOLEAN : TrimDecode(ok)
    \/ \E ok \in BOOLEAN : TrimDetect(ok)
    \/ \E ok \in BOOLEAN : TrimTemp(ok)
    \/ \E ok \in BOOLEAN : TrimExportToTemp(ok)
    \/ \E ok \in BOOLEAN, truncated \in BOOLEAN : TrimExportInPlace(ok, truncated)
    \/ \E ok \in BOOLEAN : TrimReplace(ok)

SpecTrim == TrimInit /\ [][TrimNext]_vars

----------------------------------------------------------------------------
(* Properties of trim_silence_m4a *)

\* the non-silent region is the whole clip
NothingToTrim == tClip.len > 0 /\ tClip.ranges = << <<0, tClip.len>> >>

\* C16 (as claimed): when a step of the call failed, the file has the content it had
\* before the call and the path is returned.
C16_FailureLeavesFile ==
    (tPc = "returned" /\ tFailed) => (tFile = tOrig /\ tReturn = "file_path")

\* C17 (as claimed): when there is no leading or trailing silence, the file after the
\* call is identical to the file before it.
C17_NoSilenceNoRewrite ==
    (tPc = "returned" /\ NothingToTrim) => tFile = tOrig

\* C18 (as claimed): once the call has returned no temporary file it created exists.
C18_NoTempFileLeft ==
    tPc = "returned" => tTemp = {}

----------------------------------------------------------------------------
(* Properties of search_youtube_for_song *)

\* the text a candidate is matched on: title, description and uploader joined, case-folded
CombinedText(e) == Lowercase(e.title) \o Lowercase(e.description) \o Lowercase(e.uploader)

\* every word of the track title occurs in the candidate's text
TitleTokensPresent(e) == \A i \in 1..Len(name) : In(<<Lower(name[i])>>, CombinedText(e))

\* no word of the track title occurs in the candidate's text
TitleTokensAbsent(e) == \A i \in 1..Len(name) : ~In(<<Lower(name[i])>>, CombinedText(e))

ArtistPresent(e) == In(Lowercase(artist), CombinedText(e))

\* the acceptance bar of the specification: all title tokens present and the artist present
AcceptancePredicate(e) == TitleTokensPresent(e) /\ ArtistPresent(e)

\* the candidate carries a disqualifying phrase in its title or its description
Disqualified(e) ==
    \E p \in { <<"music", "video">>, <<"official", "video">> } :
        In(p, Lowercase(e.title)) \/ In(p, Lowercase(e.description))

\* a candidate the resolver may return: it has a webpage reference and is not disqualified
Eligible(e) == e.webpage_url # NoUrl /\ ~Disqualified(e)

\* the score the specification gives a candidate
ClaimScore(e) ==
      (IF In(<<"lyric">>, Lowercase(e.title)) \/ In(<<"official", "audio">>, Lowercase(e.title))
       THEN 3 ELSE 0)
    + (IF In(Lowercase(artist), Lowercase(e.title)) THEN 2 ELSE 0)
    + (IF In(Lowercase(name), Lowercase(e.title)) THEN 2 ELSE 0)

\* the positions of the earliest highest-scoring eligible candidate of a list
BestPositions(es) ==
    { i \in 1..Len(es) :
        /\ Eligible(es[i])
        /\ \A j \in 1..Len(es) :
             Eligible(es[j]) =>
                /\ ClaimScore(es[j]) <= ClaimScore(es[i])
                /\ (j < i => ClaimScore(es[j]) < ClaimScore(es[i])) }

HasAccepted(es) == \E i \in 1..Len(es) : Eligible(es[i])

Returned == sPc = "done" /\ name # <<>>

\* C6 (as claimed): a match is returned only if some examined candidate satisfied the
\* acceptance predicate, and the returned candidate matches the title or the artist.
C6_MatchOnlyIfAccepted ==
    (Returned /\ sResult.url # NoUrl) =>
        /\ \E i \in 1..Len(examined) : AcceptancePredicate(examined[i])
        /\ \A i \in 1..Len(examined) :
             examined[i].webpage_url = sResult.url =>
                (TitleTokensPresent(examined[i]) \/ In(Lowercase(artist), CombinedText(examined[i])))

\* C7 (as claimed): when no examined candidate's text holds any token of the track
\* title, the resolution returns the no-match outcome.
C7_NoTitleTokenNoMatch ==
    (Returned /\ \A i \in 1..Len(examined) : TitleTokensAbsent(examined[i]))
        => sResult.url = NoUrl

\* C8: a disqualified candidate is never the running best nor the returned match, and
\* when every examined candidate is disqualified the resolution returns no match.
C8_DisqualifiedNeverReturned ==
    /\ \A i \in 1..Len(examined) :
         (Disqualified(examined[i]) /\ examined[i].webpage_url # NoUrl) =>
            /\ best_url # examined[i].webpage_url
            /\ sResult.url # examined[i].webpage_url
    /\ (Returned /\ \A i \in 1..Len(examined) : Disqualified(examined[i]))
          => sResult.url = NoUrl

\* a disqualified candidate with the top score was examined, and another one was returned
C8_Witness ==
    /\ Returned
    /\ sResult.url # NoUrl
    /\ \E i \in 1..Len(examined) :
         /\ Disqualified(examined[i])
         /\ examined[i].webpage_url # NoUrl
         /\ \A j \in 1..Len(examined) : ClaimScore(examined[j]) <= ClaimScore(examined[i])

\* C9: the returned reference is that of the earliest highest-scoring candidate, among
\* the examined candidates that have a webpage reference and are not disqualified;
\* it is the no-match outcome exactly when there is no such candidate.
C9_ReturnsBestCandidate ==
    Returned =>
        IF HasAccepted(examined)
        THEN \E i \in BestPositions(examined) : sResult.url = examined[i].webpage_url
        ELSE sResult.url = NoUrl

\* the scenario of the specification: one candidate "Coldplay - Yellow (Lyric Video)"
C9_Witness ==
    /\ Returned
    /\ artist = <<"Coldplay">>
    /\ Len(examined) = 1
    /\ examined[1].title = <<"Coldplay", "Yellow", "Lyric", "Video">>
    /\ examined[1].webpage_url = "u1"
    /\ sResult.url = "u1"

QueryRank(suffix) ==
    IF suffix = "lyrics" THEN 1 ELSE IF suffix = "official audio" THEN 2 ELSE 3

\* C24: of the queries issued by one resolution, every channel-prefixed one comes
\* before every unprefixed one, the prefix is the known channel, within each group the
\* order is lyrics, official audio, plain, and without a channel none is prefixed.
C24_QueryOrder ==
    \A k \in 1..Len(issued) :
        /\ issued[k].q.prefix \in {"", channel_url}
        /\ \A j \in 1..(k - 1) :
              /\ issued[j].q.prefix = "" => issued[k].q.prefix = ""
              /\ issued[j].q.prefix = issued[k].q.prefix
                    => QueryRank(issued[j].q.suffix) < QueryRank(issued[k].q.suffix)

\* a resolution with a channel that went through all six queries
C24_Witness ==
    /\ channel_url # ""
    /\ Len(issued) = 6
    /\ issued[3].q.prefix = channel_url
    /\ issued[4].q.prefix = ""

----------------------------------------------------------------------------
(* Properties of the channel cache and of the start of a resolution *)

\* the value a lookup of key a must give after the sets made so far
LastWritten(a) == IF chLastSet[a] = Absent THEN "" ELSE chLastSet[a]

\* C11 (as claimed): resolving a track with a title and an empty artist runs no
\* channel discovery and does not raise.
C11_EmptyArtistTitleOnly ==
    (rName # "" /\ rArtist = <<>>) => (rDiscoveries = 0 /\ rPc # "raised")

\* C13: every get_artist_channel call returns the value of the latest
\* set_artist_channel for its key ("" when there was none), and a set for one key
\* leaves what a lookup of every other key returns unchanged.
C13_LastWriterWins ==
    [][ /\ chGets' # chGets => chGot'.value = LastWritten(chGot'.artist)
        /\ \A a \in ArtistNames :
             chLastSet'[a] = chLastSet[a] =>
                get_artist_channel(youtube_channels', a) = get_artist_channel(youtube_channels, a)
      ]_vars

\* a resolution stored rBest for its artist, a later set wrote another channel for the
\* same key, and the lookup made after both returned the later one
C13_Witness ==
    /\ chGets >= 1
    /\ rPc = "done" /\ ~rFault /\ rBest \in ChannelUrls
    /\ chGot.artist = rArtist
    /\ chGot.value \in ChannelUrls /\ chGot.value # rBest
    /\ chGot.value = youtube_channels[rArtist]

\* C14 (as claimed): two artist names with the same normalized key never have two
\* cache entries, and a lookup under one finds the entry written under the other.
C14_OneEntryPerKey ==
    \A a, b \in ArtistNames :
        (a # b /\ normalize_name(a) = normalize_name(b)) =>
            /\ ~(youtube_channels[a] # Absent /\ youtube_channels[b] # Absent)
            /\ get_artist_channel(youtube_channels, a) = get_artist_channel(youtube_channels, b)

\* the lines of the discovery output that denote a channel
ChannelResults == { k \in 1..Len(rLines) : rLines[k].kind = "json" /\ rLines[k].url \in ChannelUrls }

\* the similarity of line k's title to the artist key, as numerator and denominator
SimNum(k) == Matches(normalize_name(rArtist), normalize_name(rLines[k].title))
SimDen(k) == Denominator(normalize_name(rArtist), normalize_name(rLines[k].title))

\* C25: after the discovery search of a cache miss, the reference picked is that of a
\* channel result whose similarity is above the threshold (zero) and the highest among
\* the channel results; when no channel result is above the threshold nothing is picked
\* and the resolution goes on without a channel; the resolution writes the cache only
\* when it stores the picked reference, and then builds only unprefixed queries
\* when nothing was picked.
C25_BestChannelAboveThreshold ==
    /\ [](rLines # <<>> =>
            IF \E k \in ChannelResults : SimNum(k) > 0
            THEN /\ rPc = "store"
                 /\ \E k \in ChannelResults :
                       /\ rLines[k].url = rBest
                       /\ SimNum(k) > 0
                       /\ \A j \in ChannelResults : SimNum(j) * SimDen(k) <= SimNum(k) * SimDen(j)
            ELSE rBest = "" /\ rChannel = "" /\ rPc = "queries")
    /\ [][ /\ (youtube_channels' # youtube_channels /\ chCalls' = chCalls)
                => (rPc = "store" /\ rBest # "" /\ youtube_channels' = [youtube_channels EXCEPT ![rArtist] = rBest])
           /\ (rPc = "queries" /\ rPc' = "done" /\ rDiscoveries = 1 /\ rBest = "")
                => \A k \in 1..Len(rQueries') : rQueries'[k].prefix = ""
         ]_vars

\* a discovery whose output holds a video that matches better than the channel picked
C25_Witness ==
    /\ rPc = "store"
    /\ rBest \in ChannelUrls
    /\ \E k \in 1..Len(rLines) : rLines[k].url \notin ChannelUrls /\ rLines[k].kind = "json" /\ SimNum(k) > 0

\* C29: a find_or_cache_artist_channel call whose lookup finds a non-empty reference
\* cached for its artist name returns exactly that reference, and from there to the end of
\* the resolution no discovery search is issued and the resolution writes no cache entry.
C29_CacheHitIsReadOnly ==
    [][ /\ (rPc = "lookup" /\ rPc' # "lookup" /\ ~rFault' /\ youtube_channels[rArtist] \in ChannelUrls)
            => /\ rPc' = "queries"
               /\ rChannel' = youtube_channels[rArtist]
               /\ rDiscoveries' = 0
               /\ youtube_channels' = youtube_channels
        /\ (rPc = "queries" /\ rDiscoveries = 0)
            => /\ rPc' \in {"queries", "done"}
               /\ rDiscoveries' = 0
               /\ rChannel' = rChannel
               /\ youtube_channels' # youtube_channels => chCalls' # chCalls
      ]_vars

\* a resolution that ended on the cached reference without any discovery
C29_Witness ==
    /\ rPc = "done"
    /\ rDiscoveries = 0
    /\ rChannel \in ChannelUrls
    /\ youtube_channels[rArtist] = rChannel
    /\ Len(rQueries) = 6 /\ rQueries[1].prefix = rChannel

\* C26: when the two calls have both returned, the cache holds no entry for the artist if
\* neither wrote one, and otherwise one entry whose reference is one that the calls wrote
\* (the one written last); each call returned "" or a reference it found or wrote.
C26_RaceLeavesOneEntry ==
    (\A w \in RaceWorkers : racePc[w] = "done") =>
        /\ IF raceWrites = <<>>
           THEN youtube_channels[raceArtist] = Absent
           ELSE /\ youtube_channels[raceArtist] \in { raceWrites[k] : k \in 1..Len(raceWrites) }
                /\ youtube_channels[raceArtist] = raceWrites[Len(raceWrites)]
        /\ \A a \in ArtistNames \ {raceArtist} : youtube_channels[a] = Absent
        /\ \A w \in RaceWorkers :
              raceRet[w] \in {""} \cup { raceWrites[k] : k \in 1..Len(raceWrites) }

\* both calls missed, found different channels and wrote them one after the other
C26_Witness ==
    /\ \A w \in RaceWorkers : racePc[w] = "done"
    /\ Len(raceWrites) = 2
    /\ raceWrites[1] # raceWrites[2]

\* C15 (as claimed): a cache call that fails never makes the resolution raise.
C15_CacheFailureNonFatal == ~(rFault /\ rPc = "raised")

----------------------------------------------------------------------------
(* Properties of the pipeline *)

IsPath(r) == r \notin {Unset, None, Raised}

\* C1 (as claimed): once a download is recorded for a track and the user, no step
\* issues a search or starts a download for that track again.
C1_NeverReResolved ==
    [][ \A t \in TrackIds :
            downloads[<<MainUser, t>>] > 0 =>
                (nSearch'[t] = nSearch[t] /\ nFetch'[t] = nFetch[t]) ]_vars

\* C3: process_tracks never raises; when it returns every item has finished and was
\* collected; and whatever the other items did, a started item can take its next
\* step, a finished one can be collected, and a pending one is not stuck.
C3_FailureIsolated ==
    /\ ptPc # "raised"
    /\ ptPc = "returned" => \A i \in Items : pc[i] = "Finished" /\ i \in collected
    /\ ptPc = "running" =>
         \A i \in Items :
            /\ pc[i] \notin {"Pending", "Finished"} => ENABLED ItemStage(i)
            /\ pc[i] = "Pending" => (Running # {} \/ ENABLED (\E j \in Items : ItemStart(j)))
            /\ (pc[i] = "Finished" /\ i \notin collected) => ENABLED Collect(i)

\* the batch returned with one item that raised, one that returned None and one path
C3_Witness ==
    /\ ptPc = "returned"
    /\ \E i, j, k \in Items :
         result[i] = Raised /\ result[j] = None /\ IsPath(result[k])

\* C4 (as claimed): when the batch returns, every item is either among the succeeded
\* or in the list of failures reported with a reason (the only such list
\* process_tracks keeps is the one it logs), so the two add up to the batch size.
C4_EveryItemReported ==
    ptPc = "returned" => Len(downloaded) + Len(logged) = NItems

Occurrences(seq, x) == Cardinality({ k \in 1..Len(seq) : seq[k] = x })

\* C12 (as claimed): a search query that raises is skipped; it never ends the
\* resolution of its item with an exception.
C12_QueryFailureSkipped ==
    \A i \in Items : ~(pc[i] = "Finished" /\ result[i] = Raised /\ reason[i] = "search error")

\* the order of the stages of one item
StageOrder == <<"Resolving", "Fetching", "Normalizing", "Tagging", "Recording">>

IsPrefix(p, q) == Len(p) <= Len(q) /\ SubSeq(q, 1, Len(p)) = p

\* C19: when the tagging block raised, download_and_tag goes on to the recording
\* stage, computes the checksum, attempts the recording and returns the file path.
C19_TagFailureNonFatal ==
    /\ (mTagFailed /\ mPc \notin {"call", "exit", "returned"}) => mPc = "Recording"
    /\ (mTagFailed /\ mPc = "returned") =>
          /\ mTrail[Len(mTrail)] = "Recording"
          /\ mChecksum \in Checksums
          /\ mResult = VideoPath(CurTrack)

\* a call returned its path although its tagging block had raised
C19_Witness ==
    /\ mPc = "returned"
    /\ mTagFailed
    /\ IsPath(mResult)
    /\ mChecksum \in Checksums

\* C20: the stages a call has entered are always an initial part of Resolving,
\* Fetching, Normalizing, Tagging, Recording, the stage it is in is the last one
\* entered, a path is returned only after all five were entered, and once the call
\* has returned no stage of it runs again.
C20_StageOrder ==
    /\ [](/\ IsPrefix(mTrail, StageOrder)
          /\ mPc \in {"Resolving", "Fetching", "Normalizing", "Tagging", "Recording"} =>
                (mTrail # <<>> /\ mTrail[Len(mTrail)] = mPc)
          /\ (mPc = "returned" /\ IsPath(mResult)) => mTrail = StageOrder)
    /\ [][ mPc = "returned" =>
              (mTrail' = mTrail /\ mResult' = mResult /\ mPc' \in {"call", "exit"}) ]_vars

\* a call went through all five stages and returned its path
C20_Witness ==
    /\ mPc = "returned"
    /\ mTrail = StageOrder
    /\ IsPath(mResult)

\* an item whose download has written its output file
Wrote(i) == pc[i] \in {"Normalizing", "Tagging", "Recording"} \/ IsPath(result[i])

\* C21 (as claimed): every batch eventually returns, whatever the remote calls do.
C21_BatchEventuallyReturns == <>(ptPc = "returned")

\* C22: download_and_tag is started at most once per item, exactly once for every
\* item that left Pending and for every item when the batch returns, and never are
\* more than Workers items in progress.
C22_ProcessedOnce ==
    /\ \A i \in Items : started[i] <= 1 /\ (pc[i] # "Pending" <=> started[i] = 1)
    /\ Cardinality(Running) <= Workers
    /\ ptPc = "returned" => \A i \in Items : started[i] = 1

\* every item was started, one has failed and the others fill the pool
C22_Witness ==
    /\ Cardinality(Running) = Workers
    /\ \A i \in Items : started[i] = 1
    /\ \E i \in Items : result[i] = Raised

\* C27 (as claimed): two items of a batch that both wrote an output file wrote
\* different paths.
C27_DistinctOutputPaths ==
    \A i, j \in Items :
        (i # j /\ Wrote(i) /\ Wrote(j)) => FinalPath(itemTrack[i]) # FinalPath(itemTrack[j])

C5_RecordFailureFailsItem ==
    \A i \in Items :
        (pc[i] = "Finished" /\ recFailed[i]) =>
            (~IsPath(result[i]) /\ (i \in collected => Occurrences(downloaded, FinalPath(itemTrack[i])) = 0))

----------------------------------------------------------------------------
(* Properties of record_download *)

\* C2 (as claimed): after any number n >= 1 of calls of record_download for one
\* (user, track), none of which met a database fault, the downloads table holds exactly
\* one row for the pair and the latest call completed as a no-op (it did not raise).
C2_ExactlyOneRow ==
    \A p \in Pairs :
        (rdCalls[p] >= 1 /\ ~rdFaulted[p]) => (downloads[p] = 1 /\ ~rdRaised[p])

\* C23 (as claimed): when the first call of record_download for a (user, track) stopped
\* at a database fault after some of its statements, and the second call completes
\* without raising, the store holds the catalog track, exactly one download row and
\* exactly one audit row for the pair.
C23_RetryAfterPartialFailure ==
    [][ \A p \in Pairs :
            (rdCalls[p] = 1 /\ rdFaulted[p] /\ rdCalls'[p] = 2 /\ ~rdRaised'[p])
                => (tracks'[p[2]].present /\ downloads'[p] = 1 /\ user_history'[p] = 1) ]_vars

\* C28 (as claimed): a track that has a download row has a non-null checksum.
C28_ChecksumNeverCleared ==
    \A p \in Pairs : downloads[p] > 0 => tracks[p[2]].checksum # NULL

====
